---- MODULE Spec2Model ----
(***************************************************************************)
(* Model of docs/content/mca.ipynb: the eleven code cells of the notebook, *)
(* the kernel namespace they read and bind, the outputs they display and   *)
(* the execution metadata (execution_count, iopub.status.busy/idle) that   *)
(* the saved notebook records for them.                                    *)
(***************************************************************************)
EXTENDS Integers, Sequences, FiniteSets, TLC

VARIABLES csv, mode, allow_errors, ns, running, order, outputs, trace,
          now, stopped, faults, run

vars == <<csv, mode, allow_errors, ns, running, order, outputs, trace,
          now, stopped, faults, run>>

(***************************************************************************)
(* Bounds of the model.                                                    *)
(***************************************************************************)
\* Longest remote CSV file considered, in lines.
MaxLines == 3

\* Number of runs of the notebook in one session (a run, then restarts).
MaxRuns == 2

\* Most library calls that fail in one session.
MaxFaults == 3

(***************************************************************************)
(* The data: the five columns and records of the balloons file.            *)
(***************************************************************************)
ColumnNames == <<"Color", "Size", "Action", "Age", "Inflated">>

\* Records of the file: row 0 of the displayed head, and a record with the
\* PURPLE, LARGE and DIP categories that the column tables display.
SampleRows ==
  { <<"YELLOW", "SMALL", "STRETCH", "ADULT", "T">>,
    <<"PURPLE", "LARGE", "DIP", "CHILD", "F">> }

\* The category strings sorted in descending order.
CategoryOrderDescending ==
  <<"YELLOW", "T", "STRETCH", "SMALL", "PURPLE", "LARGE", "F", "DIP",
    "CHILD", "ADULT">>

\* The category strings in the order in which Python sorts them.
CategoryOrder ==
  <<"ADULT", "CHILD", "DIP", "F", "LARGE", "PURPLE", "SMALL", "STRETCH",
    "T", "YELLOW">>

\* The values of an indicator column in sorted order.
IndicatorOrder == <<0, 1>>

Files == UNION { [1..n -> SampleRows] : n \in 0..MaxLines }

(***************************************************************************)
(* The pandas calls of the load cell and of the one-hot cell.  A table is  *)
(* a record of its dtype, its column labels and its rows.                  *)
(***************************************************************************)
NoFrame == [kind |-> "frame", dtype |-> "none", cols |-> <<>>, rows |-> <<>>]

\* pd.read_csv(url) without header=None: the first line of the file becomes
\* the column labels, the remaining lines are the rows.
ReadCsv(file) ==
  [kind |-> "frame", dtype |-> "object", cols |-> Head(file),
   rows |-> Tail(file)]

\* dataset.columns = names
SetColumns(frame, names) == [frame EXCEPT !.cols = names]

\* The number of rows DataFrame.head() keeps.
HeadRows == 5

\* frame.head()
HeadOf(frame) ==
  [frame EXCEPT !.rows = SubSeq(frame.rows, 1,
                          IF Len(frame.rows) < HeadRows THEN Len(frame.rows)
                          ELSE HeadRows)]

ValueOrder(dtype) == IF dtype = "object" THEN CategoryOrder ELSE IndicatorOrder

ValueStr(dtype, v) ==
  IF dtype = "object" THEN v ELSE IF v = 1 THEN "1" ELSE "0"

\* The values present in column j, sorted, without the first of them, as
\* with drop_first=True.
CategoriesDropFirst(frame, j) ==
  LET present == SelectSeq(ValueOrder(frame.dtype),
                   LAMBDA v : \E r \in 1..Len(frame.rows) : frame.rows[r][j] = v)
  IN IF present = <<>> THEN present ELSE Tail(present)

\* The values present in column j, sorted.
Categories(frame, j) ==
  SelectSeq(ValueOrder(frame.dtype),
            LAMBDA v : \E r \in 1..Len(frame.rows) : frame.rows[r][j] = v)

\* The columns pd.get_dummies encodes when no columns are named: those that
\* hold strings.
DefaultColumns(frame) ==
  IF frame.dtype = "object" THEN DOMAIN frame.cols ELSE {}

RECURSIVE DummySlots(_, _, _)
\* One slot per (encoded column, category present in it) from column j on.
DummySlots(frame, columns, j) ==
  IF j > Len(frame.cols) THEN <<>>
  ELSE (IF j \in columns
        THEN [k \in 1..Len(Categories(frame, j)) |->
                [src |-> j, val |-> Categories(frame, j)[k]]]
        ELSE <<>>) \o DummySlots(frame, columns, j + 1)

\* The element of a one-element set.
Only(S) == CHOOSE x \in S : TRUE

\* The encoded table: the columns kept as they are come first, then one
\* indicator column <label>_<category> per slot.
Encode(frame, slots, kept) ==
  [kind  |-> "frame",
   dtype |-> "uint8",
   cols  |-> [k \in 1..Len(kept) |-> frame.cols[kept[k]]] \o
             [k \in 1..Len(slots) |->
                frame.cols[slots[k].src] \o "_" \o
                ValueStr(frame.dtype, slots[k].val)],
   rows  |-> [r \in 1..Len(frame.rows) |->
                [k \in 1..Len(kept) |-> frame.rows[r][kept[k]]] \o
                [k \in 1..Len(slots) |->
                   IF frame.rows[r][slots[k].src] = slots[k].val
                   THEN 1 ELSE 0]]]

\* pd.get_dummies(frame, columns=columns)
GetDummies(frame, columns) ==
  IF columns = {} THEN frame
  ELSE Only({ Encode(frame, slots, kept) :
                slots \in {DummySlots(frame, columns, 1)},
                kept \in {SelectSeq([j \in 1..Len(frame.cols) |-> j],
                                    LAMBDA j : j \notin columns)} })

(***************************************************************************)
(* The estimator prince.MCA as the notebook uses it: an object built from  *)
(* keyword arguments, that fit returns fitted and whose results are        *)
(* retrieved afterwards.  What fit computes is the library's business; the *)
(* estimator records the arguments it was built with and the table it was  *)
(* fitted on.                                                              *)
(***************************************************************************)
\* prince.MCA(**kw): an estimator that is not fitted yet.
NewMCA(kw) == [kind |-> "MCA", kw |-> kw, fitted |-> FALSE, Z |-> NoFrame]

\* est.fit(X): the estimator, fitted on the table X.
Fit(est, X) == [est EXCEPT !.fitted = TRUE, !.Z = X]

(***************************************************************************)
(* The code cells, in document order, as lists of statements.              *)
(***************************************************************************)
Stmt(op, target, obj, arg) ==
  [op |-> op, target |-> target, obj |-> obj, arg |-> arg]

LoadCell ==
  << Stmt("import", "pd", "", ""),
     Stmt("read_csv", "dataset", "pd", ""),
     Stmt("set_columns", "", "dataset", ""),
     Stmt("head", "", "dataset", "") >>

\* The arguments of the first estimator with n_components=2.
FitKwTwoComponents ==
  [n_components |-> 2, n_iter |-> 3, copy |-> TRUE, check_input |-> TRUE,
   engine |-> "sklearn", random_state |-> 42]

\* The arguments of the first estimator.
FitKw ==
  [n_components |-> 3, n_iter |-> 3, copy |-> TRUE, check_input |-> TRUE,
   engine |-> "sklearn", random_state |-> 42]

FitCell ==
  << Stmt("import", "prince", "", ""),
     Stmt("MCA", "mca", "prince", ""),
     Stmt("fit", "mca", "mca", "dataset") >>

\* The one-hot cell assigning the encoded table to dataset.
OneHotCellRebinding ==
  << Stmt("get_dummies", "dataset", "pd", "dataset"),
     Stmt("MCA", "mca_no_one_hot", "prince", ""),
     Stmt("fit", "mca_no_one_hot", "mca_no_one_hot", "dataset") >>

\* The arguments of the second estimator.
NoOneHotKw == [one_hot |-> FALSE]

OneHotCell ==
  << Stmt("get_dummies", "one_hot", "pd", "dataset"),
     Stmt("MCA", "mca_no_one_hot", "prince", ""),
     Stmt("fit", "mca_no_one_hot", "mca_no_one_hot", "one_hot") >>

\* A plot of components 0 and 3.
PlotKwOutOfRange == [x_component |-> 0, y_component |-> 3]

\* The components the plot cell asks for.
PlotKw == [x_component |-> 0, y_component |-> 1]

\* The cells without the last one.
CellsWithoutLast ==
  << LoadCell,
     FitCell,
     OneHotCell,
     << Stmt("eigenvalues_summary", "", "mca", "") >>,
     << Stmt("row_coordinates", "", "mca", "dataset") >>,
     << Stmt("column_coordinates", "", "mca", "dataset") >>,
     << Stmt("plot", "", "mca", "dataset") >>,
     << Stmt("row_contributions_", "", "mca", "") >>,
     << Stmt("column_contributions_", "", "mca", "") >>,
     << Stmt("row_cosine_similarities", "", "mca", "dataset") >> >>

\* The cells with the fit cell before the load cell.
CellsFitFirst ==
  << FitCell,
     LoadCell,
     OneHotCell,
     << Stmt("eigenvalues_summary", "", "mca", "") >>,
     << Stmt("row_coordinates", "", "mca", "dataset") >>,
     << Stmt("column_coordinates", "", "mca", "dataset") >>,
     << Stmt("plot", "", "mca", "dataset") >>,
     << Stmt("row_contributions_", "", "mca", "") >>,
     << Stmt("column_contributions_", "", "mca", "") >>,
     << Stmt("row_cosine_similarities", "", "mca", "dataset") >>,
     << Stmt("column_cosine_similarities", "", "mca", "dataset") >> >>

\* The cells with the plot after every retrieval.
CellsPlotLast ==
  << LoadCell,
     FitCell,
     OneHotCell,
     << Stmt("eigenvalues_summary", "", "mca", "") >>,
     << Stmt("row_coordinates", "", "mca", "dataset") >>,
     << Stmt("column_coordinates", "", "mca", "dataset") >>,
     << Stmt("row_contributions_", "", "mca", "") >>,
     << Stmt("column_contributions_", "", "mca", "") >>,
     << Stmt("row_cosine_similarities", "", "mca", "dataset") >>,
     << Stmt("column_cosine_similarities", "", "mca", "dataset") >>,
     << Stmt("plot", "", "mca", "dataset") >> >>

Cells ==
  << LoadCell,
     FitCell,
     OneHotCell,
     << Stmt("eigenvalues_summary", "", "mca", "") >>,
     << Stmt("row_coordinates", "", "mca", "dataset") >>,
     << Stmt("column_coordinates", "", "mca", "dataset") >>,
     << Stmt("plot", "", "mca", "dataset") >>,
     << Stmt("row_contributions_", "", "mca", "") >>,
     << Stmt("column_contributions_", "", "mca", "") >>,
     << Stmt("row_cosine_similarities", "", "mca", "dataset") >>,
     << Stmt("column_cosine_similarities", "", "mca", "dataset") >> >>

CodeCells == DOMAIN Cells

\* The arguments of the estimator a statement constructs.
KwOf(s) == IF s.target = "mca" THEN FitKw ELSE NoOneHotKw

Names == {"pd", "prince", "dataset", "mca", "one_hot", "mca_no_one_hot"}

\* The results of a fitted estimator that the notebook retrieves.
Accessors ==
  {"eigenvalues_summary", "row_coordinates", "column_coordinates",
   "row_contributions_", "column_contributions_",
   "row_cosine_similarities", "column_cosine_similarities"}

(***************************************************************************)
(* The recorded execution: execution_count of every code cell and, for the *)
(* cells that carry timing metadata, iopub.status.busy and                 *)
(* iopub.status.idle in microseconds after 2023-06-27T11:44:41Z.           *)
(***************************************************************************)
\* The counts with those of the two coordinate cells exchanged.
ExecutionCountSwapped == <<1, 2, 13, 3, 5, 4, 6, 7, 8, 9, 10>>

ExecutionCount == <<1, 2, 13, 3, 4, 5, 6, 7, 8, 9, 10>>

Timed == CodeCells \ {3}

\* The busy times with the row_coordinates cell busy 10 ms earlier.
StatusBusyEarly ==
  <<167846, 1467070, 0, 1852184, 1882182, 1935888, 1969596, 2042709,
    2245073, 2263409, 2284774>>

StatusBusy ==
  <<167846, 1467070, 0, 1852184, 1892182, 1935888, 1969596, 2042709,
    2245073, 2263409, 2284774>>

StatusIdle ==
  <<1464438, 1844813, 0, 1887868, 1922958, 1964162, 2037580, 2243501,
    2261885, 2283241, 2306275>>

(***************************************************************************)
(* The recorded outputs: the tables the saved notebook displays.  A table  *)
(* is its row labels, its column labels and its values row by row.         *)
(* Percentages are in hundredths of a percent in the summary and in whole  *)
(* percents in the contributions, as displayed; eigenvalues are in         *)
(* thousandths; coordinates and cosine similarities are in units of 1e-7,  *)
(* a displayed value below 1e-7 in magnitude being 0.                      *)
(***************************************************************************)
Table(index, columns, values) ==
  [index |-> index, columns |-> columns, values |-> values]

NoTable == Table(<<>>, <<>>, <<>>)

HeadOut ==
  Table(<<0, 1, 2, 3, 4>>, ColumnNames,
        << <<"YELLOW", "SMALL", "STRETCH", "ADULT", "T">>,
           <<"YELLOW", "SMALL", "STRETCH", "CHILD", "F">>,
           <<"YELLOW", "SMALL", "DIP", "ADULT", "F">>,
           <<"YELLOW", "SMALL", "DIP", "CHILD", "F">>,
           <<"YELLOW", "LARGE", "STRETCH", "ADULT", "T">> >>)

SummaryColumns ==
  <<"eigenvalue", "% of variance", "% of variance (cumulative)">>

\* The summary with two digits of a cumulative percentage exchanged.
EigenvaluesSummaryOutMisadded ==
  Table(<<0, 1, 2>>, SummaryColumns,
        << <<402, 4017, 4017>>,
           <<211, 2111, 6218>>,
           <<186, 1856, 7984>> >>)

EigenvaluesSummaryOut ==
  Table(<<0, 1, 2>>, SummaryColumns,
        << <<402, 4017, 4017>>,
           <<211, 2111, 6128>>,
           <<186, 1856, 7984>> >>)

RowCoordinatesOut ==
  Table(<<0, 1, 2, 3, 4>>, <<0, 1, 2>>,
        << <<7053870, 0, 7586390>>,
           <<-3865860, 0, 6260630>>,
           <<-3865860, 0, 6260630>>,
           <<-8520140, 0, 5624470>>,
           <<7835390, -6333333, 1302010>> >>)

HeadLabels ==
  <<"Color_PURPLE", "Color_YELLOW", "Size_LARGE", "Size_SMALL", "Action_DIP">>

ColumnCoordinatesOut ==
  Table(HeadLabels, <<0, 1, 2>>,
        << <<1173080, 6892024, -6412700>>,
           <<-1303420, -7657805, 7125230>>,
           <<1173080, -6892024, -6412700>>,
           <<-1303420, 7657805, 7125230>>,
           <<-8538640, 0, -793400>> >>)

RowContributionsOut ==
  Table(<<0, 1, 2, 3, 4>>, <<0, 1, 2>>,
        << <<7, 0, 16>>,
           <<2, 0, 11>>,
           <<2, 0, 11>>,
           <<10, 0, 9>>,
           <<8, 10, 0>> >>)

ColumnContributionsOut ==
  Table(HeadLabels, <<0, 1, 2>>,
        << <<0, 24, 23>>,
           <<0, 26, 26>>,
           <<0, 24, 23>>,
           <<0, 26, 26>>,
           <<15, 0, 0>> >>)

RowCosineSimilaritiesOut ==
  Table(<<0, 1, 2, 3, 4>>, <<0, 1, 2>>,
        << <<4614780, 0, 5337860>>,
           <<1522560, 0, 3993160>>,
           <<1522560, 0, 3993160>>,
           <<6533350, 0, 2847120>>,
           <<5926060, 3871772, 163630>> >>)

\* The column similarities with that of Action_DIP to component 0 read as
\* 5.30243 instead of 0.530243.
ColumnCosineSimilaritiesOutShifted ==
  Table(HeadLabels, <<0, 1, 2>>,
        << <<152900, 5277778, 4569200>>,
           <<152900, 5277778, 4569200>>,
           <<152900, 5277778, 4569200>>,
           <<152900, 5277778, 4569200>>,
           <<53024300, 0, 45780>> >>)

ColumnCosineSimilaritiesOut ==
  Table(HeadLabels, <<0, 1, 2>>,
        << <<152900, 5277778, 4569200>>,
           <<152900, 5277778, 4569200>>,
           <<152900, 5277778, 4569200>>,
           <<152900, 5277778, 4569200>>,
           <<5302430, 0, 45780>> >>)

\* The table each code cell displays in the saved notebook; the two fitting
\* cells display nothing and the plot cell displays a chart.
RecordedOutputs ==
  << HeadOut, NoTable, NoTable, EigenvaluesSummaryOut, RowCoordinatesOut,
     ColumnCoordinatesOut, NoTable, RowContributionsOut,
     ColumnContributionsOut, RowCosineSimilaritiesOut,
     ColumnCosineSimilaritiesOut >>

(***************************************************************************)
(* Execution of a cell by the kernel.                                      *)
(***************************************************************************)
Unbound == [kind |-> "unbound"]

EmptyNs == [n \in Names |-> Unbound]

IsBound(space, n) == space[n].kind # "unbound"

NoOutput == [kind |-> "none", op |-> "", Z |-> NoFrame, arg |-> NoFrame]

ErrorOutput(ename) ==
  [kind |-> "error", op |-> ename, Z |-> NoFrame, arg |-> NoFrame]

\* The value a cell displays: the result op of an estimator fitted on Z,
\* retrieved for the table X.
Result(op, est, X) ==
  [kind |-> "result", op |-> op, Z |-> est.Z, arg |-> X]

\* The names a statement reads.
Reads(s) == {s.obj, s.arg} \ {""}

\* An exception that is swallowed: the statement is skipped.
RaiseSwallowed(st, ename) == st

Raise(st, ename) == [st EXCEPT !.err = ename]

\* The effect of statement s on the namespace and on the cell's result when
\* every name it reads is bound and the library call is made and returns.
Call(s, st, file) ==
  LET space == st.ns
  IN CASE s.op = "import" ->
            [st EXCEPT !.ns[s.target] = [kind |-> "module"]]
       [] s.op = "read_csv" ->
            IF Len(file) = 0 THEN Raise(st, "EmptyDataError")
            ELSE [st EXCEPT !.ns[s.target] = ReadCsv(file)]
       [] s.op = "set_columns" ->
            IF Len(space[s.obj].cols) # Len(ColumnNames)
            THEN Raise(st, "ValueError")
            ELSE [st EXCEPT !.ns[s.obj] = SetColumns(space[s.obj], ColumnNames)]
       [] s.op = "head" ->
            [st EXCEPT !.out = [NoOutput EXCEPT !.kind = "result",
                                                !.op = "head",
                                                !.arg = HeadOf(space[s.obj])]]
       [] s.op = "get_dummies" ->
            [st EXCEPT !.ns[s.target] =
                GetDummies(space[s.arg], DefaultColumns(space[s.arg]))]
       [] s.op = "MCA" ->
            [st EXCEPT !.ns[s.target] = NewMCA(KwOf(s))]
       [] s.op = "fit" ->
            [st EXCEPT !.ns[s.target] = Fit(space[s.obj], space[s.arg])]
       [] s.op = "plot" ->
            IF ~space[s.obj].fitted THEN Raise(st, "NotFittedError")
            ELSE [st EXCEPT !.out = Result("plot", space[s.obj],
                                           space[s.arg])]
       [] OTHER ->
            IF ~space[s.obj].fitted THEN Raise(st, "NotFittedError")
            ELSE [st EXCEPT !.out = Result(s.op, space[s.obj],
                     IF s.arg = "" THEN NoFrame ELSE space[s.arg])]

\* Where a library failure can strike a statement: when the attribute is
\* looked up on the receiver (or the module is imported), before the
\* argument is evaluated, or inside the call, after it.
FaultStages == {"attribute", "call"}

\* Statement i of cell c, evaluated left to right: a NameError when the
\* receiver is unbound, the library's exception when the attribute lookup
\* fails, a NameError when the argument is unbound, the library's exception
\* when the call fails, its effect otherwise.  A statement that completes
\* is logged with the table it passed.
ExecStmt(c, i, st, file, fault) ==
  LET s == Cells[c][i]
  IN IF s.obj # "" /\ ~IsBound(st.ns, s.obj) THEN Raise(st, "NameError")
     ELSE IF fault = "attribute" THEN Raise(st, "LibraryError")
     ELSE IF s.arg # "" /\ ~IsBound(st.ns, s.arg) THEN Raise(st, "NameError")
     ELSE IF fault = "call" THEN Raise(st, "LibraryError")
     ELSE LET after == Call(s, st, file)
          IN IF after.err # "" THEN after
             ELSE [after EXCEPT !.log = Append(@,
                     [cell |-> c, stmt |-> i,
                      arg |-> IF s.arg = "" THEN NoFrame ELSE st.ns[s.arg]])]

RECURSIVE RunFrom(_, _, _, _, _, _)
\* The statements of cell c from statement i on; the first exception ends
\* the cell.  The library fails statement f at the given stage (f = 0: it
\* fails none).
RunFrom(c, i, st, file, f, stage) ==
  IF st.err # "" \/ i > Len(Cells[c]) THEN st
  ELSE Only({ RunFrom(c, i + 1, after, file, f, stage) :
                after \in {ExecStmt(c, i, st, file,
                                    IF i = f THEN stage ELSE "none")} })

RunCell(c, space, file, f, stage) ==
  RunFrom(c, 1, [ns |-> space, out |-> NoOutput, log |-> <<>>, err |-> ""],
          file, f, stage)

(***************************************************************************)
(* The session: the kernel runs the cells one request at a time, either    *)
(* top to bottom (mode "document") or as the saved metadata records it     *)
(* (mode "recorded").                                                      *)
(***************************************************************************)
Finished == {order[k] : k \in DOMAIN order}

Waiting == CodeCells \ (Finished \cup running)

\* The time of the next status message of a timed cell.
EventTime(c) == IF c \in running THEN StatusIdle[c] ELSE StatusBusy[c]

\* In the recorded run the status messages of the timed cells come in the
\* order of their timestamps; a cell without timing metadata comes after
\* every cell with a lower execution_count.
RecordedNext(c) ==
  IF c \in Timed
  THEN /\ \A d \in Timed \ (Finished \cup {c}) : EventTime(c) <= EventTime(d)
       /\ \A u \in CodeCells \ (Timed \cup Finished) :
             ExecutionCount[u] > ExecutionCount[c]
  ELSE \/ c \in running
       \/ /\ running = {}
          /\ \A d \in CodeCells \ Finished :
                ExecutionCount[d] >= ExecutionCount[c]

\* Run All: the first cell of the document that has not run, once the
\* kernel is idle.
DocumentNext(c) ==
  \/ c \in running
  \/ running = {} /\ \A d \in Waiting : d >= c

IsNext(c) ==
  IF mode = "recorded" THEN RecordedNext(c) ELSE DocumentNext(c)

Init ==
  /\ csv \in Files
  /\ mode \in {"document", "recorded"}
  /\ allow_errors \in BOOLEAN
  /\ mode = "recorded" => Len(csv) >= 2 /\ ~allow_errors
  /\ ns = EmptyNs
  /\ running = {}
  /\ order = <<>>
  /\ outputs = [c \in CodeCells |-> NoOutput]
  /\ trace = <<>>
  /\ now = 0
  /\ stopped = FALSE
  /\ faults = 0
  /\ run = 1

\* The kernel takes the execute request of cell c: status busy.
Busy(c) ==
  /\ ~stopped
  /\ c \in Waiting
  /\ IsNext(c)
  /\ running' = running \cup {c}
  /\ now' = IF mode = "recorded" /\ c \in Timed THEN StatusBusy[c] ELSE now
  /\ UNCHANGED <<csv, mode, allow_errors, ns, order, outputs, trace,
                 stopped, faults, run>>

\* The kernel has run cell c and replies: status idle.  An exception ends
\* the cell and, unless errors are allowed, the run.
Idle(c) ==
  /\ c \in running
  /\ IsNext(c)
  /\ \E f \in 0..Len(Cells[c]), stage \in FaultStages :
       \E st \in {RunCell(c, ns, csv, f, stage)} :
          /\ f # 0 =>
               faults < MaxFaults /\ mode = "document" /\ st.err = "LibraryError"
          /\ ns' = st.ns
          /\ outputs' = [outputs EXCEPT ![c] =
                           IF st.err # "" THEN ErrorOutput(st.err) ELSE st.out]
          /\ trace' = trace \o st.log
          /\ stopped' = (st.err # "" /\ ~allow_errors)
          /\ faults' = IF f # 0 THEN faults + 1 ELSE faults
  /\ order' = Append(order, c)
  /\ running' = running \ {c}
  /\ now' = IF mode = "recorded" /\ c \in Timed THEN StatusIdle[c] ELSE now
  /\ UNCHANGED <<csv, mode, allow_errors, run>>

RunOver == running = {} /\ (stopped \/ Waiting = {})

Failed(c) == c \in Finished /\ outputs[c].kind = "error"

\* The run has executed every cell and none has raised.
CleanRunOver == RunOver /\ Waiting = {} /\ \A c \in CodeCells : ~Failed(c)

\* Restart the kernel after a complete run and run the notebook again on the
\* same file.  Runs are repeated in the sessions that stop at the first
\* error: until a cell raises, a run goes the same way whether errors are
\* allowed or not.
Restart ==
  /\ mode = "document"
  /\ ~allow_errors
  /\ CleanRunOver
  /\ run < MaxRuns
  /\ ns' = EmptyNs
  /\ order' = <<>>
  /\ outputs' = [c \in CodeCells |-> NoOutput]
  /\ trace' = <<>>
  /\ stopped' = FALSE
  /\ run' = run + 1
  /\ UNCHANGED <<csv, mode, allow_errors, running, now, faults>>

Next ==
  \/ \E c \in CodeCells : Busy(c)
  \/ \E c \in CodeCells : Idle(c)
  \/ Restart

Spec == Init /\ [][Next]_vars

(***************************************************************************)
(* Vocabulary of the properties.                                           *)
(***************************************************************************)
StmtOf(t) == Cells[t.cell][t.stmt]

\* The kind of step a statement performs: 1 acquisition, 2 one-hot
\* encoding, 3 fitting, 4 retrieval, 5 plot; 0 for the other statements.
StepKind(s) ==
  CASE s.op = "read_csv" -> 1
    [] s.op = "get_dummies" -> 2
    [] s.op = "fit" -> 3
    [] s.op \in Accessors -> 4
    [] s.op = "plot" -> 5
    [] OTHER -> 0

\* The kinds of the steps performed so far, in the order performed.
StepsDone ==
  LET steps == SelectSeq(trace, LAMBDA t : StepKind(StmtOf(t)) > 0)
  IN [k \in 1..Len(steps) |-> StepKind(StmtOf(steps[k]))]

RECURSIVE IsSubseq(_, _)
IsSubseq(a, b) ==
  IF a = <<>> THEN TRUE
  ELSE IF b = <<>> THEN FALSE
  ELSE IF Head(a) = Head(b) THEN IsSubseq(Tail(a), Tail(b))
  ELSE IsSubseq(a, Tail(b))

IsFitted(space, n) == IsBound(space, n) /\ space[n].fitted

(***************************************************************************)
(* C1 as stated: in a top-to-bottom run every step of a kind comes after   *)
(* every step of the kinds before it, in the order acquisition, one-hot    *)
(* encoding, fitting, retrieval, plot.                                     *)
(***************************************************************************)
C1_StepsInKindOrder ==
  mode = "document" =>
    \A i, j \in DOMAIN StepsDone : StepsDone[i] < StepsDone[j] => i < j

\* The kinds of the steps of the document, in document order.
DocumentSteps == <<1, 3, 2, 3, 4, 4, 4, 5, 4, 4, 4, 4>>

(***************************************************************************)
(* C1 amended: a top-to-bottom run performs the steps in the order         *)
(* acquisition, fit of mca, one-hot encoding, fit of mca_no_one_hot,       *)
(* retrieval of eigenvalues and of row and column coordinates, the plot,   *)
(* retrieval of contributions and of cosine similarities: the steps done   *)
(* are always a subsequence of that list, and all of it after a run in     *)
(* which no cell raised.                                                   *)
(***************************************************************************)
C1_DocumentStepOrder ==
  mode = "document" =>
    /\ IsSubseq(StepsDone, DocumentSteps)
    /\ CleanRunOver => StepsDone = DocumentSteps

C1_Witness ==
  mode = "document" /\ CleanRunOver /\ StepsDone = DocumentSteps

\* Two tables with the same type, labels and rows.
SameFrame(a, b) ==
  a.dtype = b.dtype /\ a.cols = b.cols /\ a.rows = b.rows

(***************************************************************************)
(* C3: at most one code cell is executing at any time, and in the recorded *)
(* run a timed cell is busy only when every timed cell with a lower        *)
(* execution_count has become idle, at an earlier time.                    *)
(***************************************************************************)
C3_NoOverlap ==
  /\ Cardinality(running) <= 1
  /\ mode = "recorded" =>
       \A c \in running \cap Timed :
         /\ now = StatusBusy[c]
         /\ \A d \in Timed :
              ExecutionCount[d] < ExecutionCount[c] =>
                d \in Finished /\ StatusIdle[d] < now

C3_Witness ==
  mode = "recorded" /\ running = {11} /\ Finished = Timed \ {11}

(***************************************************************************)
(* C4: once the load cell has run, no later cell reassigns or modifies     *)
(* dataset, and every call that is passed dataset receives that value; it  *)
(* carries the five column names when the load cell did not raise.         *)
(***************************************************************************)
C4_DatasetKept ==
  1 \in Finished /\ 1 \in {order'[k] : k \in DOMAIN order'} =>
    ns'["dataset"] = ns["dataset"]

C4_DatasetPassed ==
  /\ \A k \in DOMAIN trace :
       StmtOf(trace[k]).arg = "dataset" =>
         /\ IsBound(ns, "dataset")
         /\ SameFrame(trace[k].arg, ns["dataset"])
  /\ 1 \in Finished /\ ~Failed(1) =>
       /\ IsBound(ns, "dataset")
       /\ SameFrame(ns["dataset"], SetColumns(ReadCsv(csv), ColumnNames))

C4_LoadOnce == []C4_DatasetPassed /\ [][C4_DatasetKept]_vars

C4_Witness ==
  /\ CleanRunOver
  /\ Cardinality({k \in DOMAIN trace : StmtOf(trace[k]).arg = "dataset"}) = 7
  /\ Len(ns["dataset"].rows) = 2

(***************************************************************************)
(* The kernel serves every execute request it is sent: a cell that can     *)
(* start starts, and a cell that is running comes to its end.              *)
(***************************************************************************)
LiveSpec ==
  /\ Spec
  /\ WF_vars(\E c \in CodeCells : Busy(c))
  /\ WF_vars(\E c \in CodeCells : Idle(c))

(***************************************************************************)
(* C5: a top-to-bottom run executes the code cells one after the other in  *)
(* document order, none twice and none skipped; it comes to an end, and    *)
(* when no cell raised it ends after the eleventh cell with every cell     *)
(* executed exactly once.                                                  *)
(***************************************************************************)
C5_Linear ==
  mode = "document" =>
    /\ order = [k \in 1..Len(order) |-> k]
    /\ running \subseteq {Len(order) + 1}
    /\ (RunOver /\ \A c \in CodeCells : ~Failed(c)) =>
         /\ Len(order) = 11
         /\ order[11] = 11
         /\ Cells[order[11]][1].op = "column_cosine_similarities"
         /\ \A c \in CodeCells :
              Cardinality({k \in DOMAIN order : order[k] = c}) = 1

C5_RunsOnceAndEnds ==
  /\ []C5_Linear
  /\ <>[](mode = "document" => RunOver)

C5_Witness == mode = "document" /\ CleanRunOver /\ Len(order) = 11 /\ run = 2

(***************************************************************************)
(* Vocabulary of the failure properties.                                   *)
(***************************************************************************)
\* The names a cell reads that no earlier statement of the cell binds.
FreeReads(c) ==
  {n \in Names :
     \E i \in DOMAIN Cells[c] :
        /\ n \in Reads(Cells[c][i])
        /\ \A j \in 1..(i - 1) : Cells[c][j].target # n}

\* The names the statements of a cell assign.
Targets(c) == {Cells[c][i].target : i \in DOMAIN Cells[c]} \ {""}

DataNames == {"dataset", "mca", "one_hot", "mca_no_one_hot"}

\* The position of a finished cell in the order of execution.
Position(c) == CHOOSE k \in DOMAIN order : order[k] = c

\* The statements of cell c that completed.
Completed(c) == {trace[k].stmt : k \in {j \in DOMAIN trace : trace[j].cell = c}}

(***************************************************************************)
(* C6 as stated: a failing cell binds none of its names, and every cell    *)
(* executed after it that reads one of the names the failing cell assigns  *)
(* fails as well.                                                          *)
(***************************************************************************)
C6_FailureBindsNothing ==
  \A c \in CodeCells :
    Failed(c) =>
      /\ \A n \in Targets(c) \cap DataNames : ~IsBound(ns, n)
      /\ \A d \in Finished :
           (/\ Position(d) > Position(c)
            /\ FreeReads(d) \cap Targets(c) \cap DataNames # {}) => Failed(d)

(***************************************************************************)
(* C6 amended: a failure is neither caught nor retried and the failing     *)
(* cell displays no result; the statements of the cell that completed      *)
(* before the failing one keep their bindings and the names the others     *)
(* assign stay unbound; every cell that reads a name that is unbound       *)
(* fails, and so does every cell that retrieves a result of an estimator   *)
(* that is not fitted.                                                     *)
(***************************************************************************)
C6_FailureUnhandled ==
  /\ \A c \in CodeCells :
       /\ Cardinality({k \in DOMAIN order : order[k] = c}) <= 1
       /\ Failed(c) =>
            /\ outputs[c].Z = NoFrame /\ outputs[c].arg = NoFrame
            /\ \E m \in 0..(Len(Cells[c]) - 1) : Completed(c) = 1..m
       /\ (c \in Finished /\ ~Failed(c)) => Completed(c) = DOMAIN Cells[c]
  /\ \A n \in Names :
       IsBound(ns, n) <=>
         \E k \in DOMAIN trace : StmtOf(trace[k]).target = n
  /\ \A d \in Finished :
       /\ (\E n \in FreeReads(d) : ~IsBound(ns, n)) => Failed(d)
       /\ (\E i \in DOMAIN Cells[d] :
             /\ Cells[d][i].op \in Accessors \cup {"plot"}
             /\ ~IsFitted(ns, Cells[d][i].obj)) => Failed(d)

\* The load has failed, the fit cell has bound mca and then failed on the
\* unbound dataset, and the cells after it have run.
C6_Witness ==
  /\ mode = "document"
  /\ Failed(1) /\ ~IsBound(ns, "dataset")
  /\ Failed(2) /\ outputs[2].op = "NameError"
  /\ IsBound(ns, "mca") /\ ~IsFitted(ns, "mca")
  /\ Failed(4) /\ outputs[4].op = "NotFittedError"
  /\ Waiting = {} /\ running = {}

(***************************************************************************)
(* C8: the notebook holds one plot statement and a run renders at most one *)
(* plot, exactly one when no cell raised, on a fitted estimator; the two   *)
(* components plotted are distinct and each is at least 0 and less than    *)
(* the n_components of that estimator.                                     *)
(***************************************************************************)
PlotsDone == {k \in DOMAIN trace : StmtOf(trace[k]).op = "plot"}

C8_OnePlot ==
  /\ Cardinality({p \in CodeCells \X (1..4) :
        p[2] \in DOMAIN Cells[p[1]] /\ Cells[p[1]][p[2]].op = "plot"}) = 1
  /\ Cardinality(PlotsDone) <= 1
  /\ CleanRunOver => Cardinality(PlotsDone) = 1
  /\ \A k \in PlotsDone :
       /\ IsFitted(ns, StmtOf(trace[k]).obj)
       /\ PlotKw.x_component # PlotKw.y_component
       /\ {PlotKw.x_component, PlotKw.y_component} \subseteq
             0..(ns[StmtOf(trace[k]).obj].kw.n_components - 1)

C8_Witness ==
  /\ Cardinality(PlotsDone) = 1
  /\ outputs[7].kind = "result" /\ outputs[7].op = "plot"
  /\ ns["mca"].kw.n_components = 3

(***************************************************************************)
(* C9 as stated: the recorded execution follows the document order, the    *)
(* execution_count increasing from each code cell to the next one.         *)
(***************************************************************************)
C9_RecordedInDocumentOrder ==
  mode = "recorded" =>
    /\ \A i, j \in DOMAIN order : i < j => order[i] < order[j]
    /\ \A c \in Finished :
         (c + 1) \in Finished => ExecutionCount[c] < ExecutionCount[c + 1]

(***************************************************************************)
(* C9 amended: the recorded execution follows the execution_count, which   *)
(* increases in document order over the ten cells with timing metadata;    *)
(* the one-hot cell, third in the document and without timing metadata,    *)
(* has the highest count and runs after all of them.                       *)
(***************************************************************************)
C9_TimedCellsInDocumentOrder ==
  mode = "recorded" =>
    /\ \A i, j \in DOMAIN order :
         i < j =>
           /\ ExecutionCount[order[i]] < ExecutionCount[order[j]]
           /\ (order[i] \in Timed /\ order[j] \in Timed) => order[i] < order[j]
    /\ \A c \in (running \cup Finished) \ Timed :
         /\ Timed \subseteq Finished
         /\ \A d \in Timed : ExecutionCount[d] < ExecutionCount[c]

C9_Witness ==
  mode = "recorded" /\ RunOver /\ order = <<1, 2, 4, 5, 6, 7, 8, 9, 10, 11, 3>>

(***************************************************************************)
(* C10: in document order and in recorded order, a cell fails on an        *)
(* unbound name or on an estimator that is not fitted only after a library *)
(* call of an earlier cell has failed; every statement that has run found  *)
(* the names it reads bound by earlier statements, and every retrieval and *)
(* the plot come after the fit of their estimator.                         *)
(***************************************************************************)
OrderErrors == {"NameError", "NotFittedError"}

C10_BoundBeforeRead ==
  /\ \A c \in Finished :
       (Failed(c) /\ outputs[c].op \in OrderErrors) =>
         \E d \in Finished :
           /\ Position(d) < Position(c)
           /\ Failed(d)
           /\ outputs[d].op \notin OrderErrors
  /\ \A k \in DOMAIN trace :
       /\ \A n \in Reads(StmtOf(trace[k])) :
            \E j \in 1..(k - 1) : StmtOf(trace[j]).target = n
       /\ StmtOf(trace[k]).op \in Accessors \cup {"plot"} =>
            \E j \in 1..(k - 1) :
              /\ StmtOf(trace[j]).op = "fit"
              /\ StmtOf(trace[j]).target = StmtOf(trace[k]).obj

C10_Witness ==
  /\ mode = "recorded"
  /\ CleanRunOver
  /\ \A c \in CodeCells \ {2, 3} : outputs[c].kind = "result"
  /\ IsFitted(ns, "mca_no_one_hot")

(***************************************************************************)
(* Vocabulary of the properties of the encoded table.                      *)
(***************************************************************************)
RECURSIVE SumSeq(_)
SumSeq(q) == IF q = <<>> THEN 0 ELSE Head(q) + SumSeq(Tail(q))

CategoryNames == {CategoryOrder[k] : k \in DOMAIN CategoryOrder}

\* The values variable j takes in the rows of table D.
Present(D, j) == {D.rows[r][j] : r \in DOMAIN D.rows}

\* The labels <variable>_<category> of every variable of D and every
\* category, as triples of the variable, the rank of the category among the
\* sorted categories, and the label.
LabelsOf(D) ==
  {<<j, i, D.cols[j] \o "_" \o CategoryOrder[i]>> :
     j \in DOMAIN D.cols, i \in DOMAIN CategoryOrder}

\* The columns of the encoded table Z that belong to variable j, given the
\* labels L of the variables.
ColumnsOfVariable(Z, L, j) ==
  {k \in DOMAIN Z.cols : \E t \in L : t[1] = j /\ t[3] = Z.cols[k]}

(***************************************************************************)
(* C11: the table pd.get_dummies(dataset) binds to one_hot has the rows of *)
(* dataset and one column per (variable, category present) pair; all its   *)
(* values are 0 or 1; in every row exactly one column of each variable     *)
(* holds 1, the column labelled with the category the dataset has in that  *)
(* row, so the category is recovered from the row; every row sums to 5,    *)
(* the number of variables.                                                *)
(***************************************************************************)
C11_IndicatorMatrix ==
  IsBound(ns, "one_hot") =>
    \A Z \in {ns["one_hot"]}, D \in {ns["dataset"]} :
      \A columns \in {Only({[j \in DOMAIN D.cols |->
                                 ColumnsOfVariable(Z, L, j)] :
                               L \in {LabelsOf(D)}})} :
        /\ Len(Z.rows) = Len(D.rows)
        /\ Len(D.cols) = Len(ColumnNames)
        /\ Len(Z.cols) =
             Cardinality({p \in (DOMAIN D.cols) \X CategoryNames :
                            p[2] \in Present(D, p[1])})
        /\ \A j \in DOMAIN D.cols :
             Cardinality(columns[j]) = Cardinality(Present(D, j))
        /\ \A r \in DOMAIN Z.rows :
             /\ Len(Z.rows[r]) = Len(Z.cols)
             /\ \A k \in DOMAIN Z.cols : Z.rows[r][k] \in {0, 1}
             /\ \A j \in DOMAIN D.cols :
                  {Z.cols[k] : k \in {i \in columns[j] : Z.rows[r][i] = 1}} =
                    {D.cols[j] \o "_" \o D.rows[r][j]}
             /\ SumSeq(Z.rows[r]) = 5

C11_Witness ==
  /\ IsBound(ns, "one_hot")
  /\ ns["dataset"].cols = ColumnNames
  /\ Len(ns["one_hot"].rows) = 2
  /\ Len(ns["one_hot"].cols) = 10
  /\ ns["one_hot"].rows[1] # ns["one_hot"].rows[2]

(***************************************************************************)
(* Vocabulary of the properties of the displayed tables.                   *)
(***************************************************************************)
\* The table cell c has displayed in the recorded run.
Shown(c) ==
  IF mode = "recorded" /\ c \in Finished /\ ~Failed(c)
  THEN RecordedOutputs[c] ELSE NoTable

\* The cells of the recorded run that have displayed a result of an
\* estimator.
ShownResults ==
  {c \in Finished :
     mode = "recorded" /\ ~Failed(c) /\ Cells[c][1].op \in Accessors}

\* The labels 0 .. n - 1.
Labels(n) == [k \in 1..n |-> k - 1]

(***************************************************************************)
(* C12: every table displayed for the estimator built with n_components=3  *)
(* has the three components 0, 1, 2 of that estimator: they label the      *)
(* three rows of eigenvalues_summary and the three columns of the          *)
(* coordinates, contributions and cosine similarities of rows and of       *)
(* columns, and every row of those tables holds three values.              *)
(***************************************************************************)
C12_ThreeComponents ==
  \A c \in ShownResults :
    LET est == ns[Cells[c][1].obj]
        t   == Shown(c)
    IN /\ est.kw.n_components = 3
       /\ IF Cells[c][1].op = "eigenvalues_summary"
          THEN /\ t.index = Labels(est.kw.n_components)
               /\ Len(t.values) = est.kw.n_components
          ELSE /\ t.columns = Labels(est.kw.n_components)
               /\ t.columns = <<0, 1, 2>>
               /\ \A r \in DOMAIN t.values :
                    Len(t.values[r]) = est.kw.n_components

C12_Witness ==
  /\ mode = "recorded"
  /\ ShownResults = {4, 5, 6, 8, 9, 10, 11}
  /\ Shown(4).index = <<0, 1, 2>>
  /\ Shown(11).columns = <<0, 1, 2>>

(***************************************************************************)
(* Vocabulary of the labels of the tables.                                 *)
(***************************************************************************)
\* The (variable, rank among the sorted categories) pairs of D that column k
\* of the encoded table Z is labelled with.
PairsOf(Z, D, L, k) ==
  {<<t[1], t[2]>> :
     t \in {u \in L : /\ u[3] = Z.cols[k]
                      /\ CategoryOrder[u[2]] \in Present(D, u[1])}}

\* The default index of a table read by pd.read_csv.
RowIndex(frame) == Labels(Len(frame.rows))

\* The first rows of a list of labels, as head() keeps them.
HeadLabelsOf(labels) ==
  SubSeq(labels, 1, IF Len(labels) < HeadRows THEN Len(labels) ELSE HeadRows)

RowTables == {5, 8, 10}

ColumnTables == {6, 9, 11}

(***************************************************************************)
(* C13: the columns of pd.get_dummies(dataset) are labelled                *)
(* <variable>_<category>, one per pair present in the dataset, variables   *)
(* in dataset column order and categories sorted within a variable (each   *)
(* column comes before the next one in that order); the                    *)
(* tables of column coordinates, contributions and cosine similarities     *)
(* display the same row labels in the same order, which are the first      *)
(* labels of that encoding when the dataset holds their categories; the    *)
(* tables of row coordinates, contributions and cosine similarities are    *)
(* labelled 0, 1, 2, ... like the rows of the dataset.                     *)
(***************************************************************************)
C13_TableLabels ==
  /\ IsBound(ns, "one_hot") =>
       LET Z == ns["one_hot"]
           D == ns["dataset"]
       IN /\ {Z.cols[k] : k \in DOMAIN Z.cols} =
               {D.cols[j] \o "_" \o D.rows[r][j] :
                  j \in DOMAIN D.cols, r \in DOMAIN D.rows}
          /\ \A L \in {LabelsOf(D)} :
               /\ \A k \in DOMAIN Z.cols :
                    Cardinality(PairsOf(Z, D, L, k)) = 1
               /\ \A k \in 1..(Len(Z.cols) - 1) :
                    \A rank \in {<<Only(PairsOf(Z, D, L, k)),
                                    Only(PairsOf(Z, D, L, k + 1))>>} :
                      \/ rank[1][1] < rank[2][1]
                      \/ /\ rank[1][1] = rank[2][1]
                         /\ rank[1][2] < rank[2][2]
  /\ \A c \in ShownResults \cap ColumnTables :
       /\ \A d \in ShownResults \cap ColumnTables :
            Shown(c).index = Shown(d).index
       /\ Len(Shown(c).values) = Len(Shown(c).index)
       /\ (/\ IsBound(ns, "one_hot")
           /\ \A i \in DOMAIN Shown(c).index :
                \E k \in DOMAIN ns["one_hot"].cols :
                   ns["one_hot"].cols[k] = Shown(c).index[i]) =>
            Shown(c).index = HeadLabelsOf(ns["one_hot"].cols)
  /\ \A c \in ShownResults \cap RowTables :
       /\ Shown(c).index = Labels(HeadRows)
       /\ Len(Shown(c).values) = Len(Shown(c).index)
       /\ \A r \in DOMAIN HeadLabelsOf(RowIndex(ns["dataset"])) :
            Shown(c).index[r] = HeadLabelsOf(RowIndex(ns["dataset"]))[r]

C13_Witness ==
  /\ mode = "recorded"
  /\ ShownResults = {4, 5, 6, 8, 9, 10, 11}
  /\ IsBound(ns, "one_hot")
  /\ Len(ns["one_hot"].cols) = 10
  /\ Len(ns["dataset"].rows) = 2
  /\ Shown(6).index = HeadLabelsOf(ns["one_hot"].cols)
  /\ Shown(10).index[2] = RowIndex(ns["dataset"])[2]

(***************************************************************************)
(* Vocabulary of the numerical properties.                                 *)
(***************************************************************************)
\* The values of column j of a table, top to bottom.
ColumnValues(t, j) == [r \in DOMAIN t.values |-> t.values[r][j]]

(***************************************************************************)
(* C14: in the displayed eigenvalues_summary the eigenvalue does not       *)
(* increase from a component to the next; the cumulative percentage of     *)
(* component k is the sum of the percentages of components 0..k, so it     *)
(* does not decrease, and it never exceeds 100%.                           *)
(***************************************************************************)
C14_CumulativeVariance ==
  \A c \in ShownResults :
    Cells[c][1].op = "eigenvalues_summary" =>
      LET t == Shown(c)
      IN /\ t.columns = SummaryColumns
         /\ \A k \in DOMAIN t.values :
              /\ t.values[k][2] >= 0
              /\ t.values[k][3] =
                   SumSeq(SubSeq(ColumnValues(t, 2), 1, k))
              /\ t.values[k][3] <= 100 * 100
              /\ k > 1 =>
                   /\ t.values[k][1] <= t.values[k - 1][1]
                   /\ t.values[k][3] >= t.values[k - 1][3]

C14_Witness ==
  /\ 4 \in ShownResults
  /\ Len(Shown(4).values) = 3
  /\ Shown(4).values[3][3] = 4017 + 2111 + 1856

(***************************************************************************)
(* C15: every displayed cosine similarity of a row and of a column lies    *)
(* between 0 and 1, and the similarities of a row of either table to the   *)
(* components 0, 1, 2 sum to at most 1, that is 10 000 000 units of 1e-7.  *)
(***************************************************************************)
C15_CosineSimilarities ==
  \A c \in ShownResults :
    Cells[c][1].op \in
        {"row_cosine_similarities", "column_cosine_similarities"} =>
      \A r \in DOMAIN Shown(c).values :
        /\ \A j \in DOMAIN Shown(c).values[r] :
             Shown(c).values[r][j] \in 0..(10 * 1000000)
        /\ SumSeq(Shown(c).values[r]) <= 10 * 1000000

C15_Witness ==
  /\ {10, 11} \subseteq ShownResults
  /\ SumSeq(Shown(10).values[5]) = 5926060 + 3871772 + 163630
  /\ SumSeq(Shown(11).values[1]) > 9999000

(***************************************************************************)
(* C17: once the load cell has run without raising, dataset holds one row  *)
(* per line of the file, and its row 0 is the first line of the file.      *)
(***************************************************************************)
C17_LoadKeepsEveryRecord ==
  (1 \in Finished /\ ~Failed(1)) =>
    /\ Len(ns["dataset"].rows) = Len(csv)
    /\ ns["dataset"].rows[1] = csv[1]

====
